---- MODULE Spec2Model ----
(***************************************************************************)
(* Model of the ganttra Gantt chart: the timeline date arithmetic of       *)
(* src/lib/gantt-utils.ts, the drag/resize gesture of                      *)
(* src/components/GanttTaskBar.tsx, the task dialogs of                    *)
(* src/app/project/[id]/page.tsx and the task actions of src/lib/store.ts  *)
(* over the IndexedDB task store of src/lib/indexeddb.ts.                  *)
(*                                                                         *)
(* A Date is an integer number of ticks of local time; a day has           *)
(* TicksPerDay ticks and day 0 is a Saturday, the first day of the week in *)
(* the "fa" locale that gantt-utils.ts selects.                            *)
(***************************************************************************)
EXTENDS Integers, Sequences, FiniteSets, TLC

\* ------------------------------------------------------------------ bounds
\* Resolution of an instant inside a day (a JavaScript Date has 86400000).
TicksPerDay == 2
\* First and last day the task dates are drawn from; day 21 starts a week.
FirstDay == 20
LastDay == 21

\* ------------------------------------------------------- program constants
DaysPerWeek == 7
CellWidthDaily == 60
CellWidthWeekly == 120
RowHeight == 50
\* timelineDates[clampedIndex] of an empty array
Undefined == -1

Views == {"daily", "weekly"}

\* ------------------------------------------------- jalali-moment operations
TicksPerWeek == DaysPerWeek * TicksPerDay

\* moment's absFloor: truncation toward zero
absFloor(n, d) == IF n >= 0 THEN n \div d ELSE -((-n) \div d)

\* Math.round of the quotient n / d (d > 0): halves round up
MathRound(n, d) == (2 * n + d) \div (2 * d)

Max2(a, b) == IF a >= b THEN a ELSE b
Min2(a, b) == IF a <= b THEN a ELSE b

UnitTicks(unit) == IF unit = "week" THEN TicksPerWeek ELSE TicksPerDay

\* m.startOf(unit), m.endOf(unit)
startOf(t, unit) == (t \div UnitTicks(unit)) * UnitTicks(unit)
endOf(t, unit) == startOf(t, unit) + UnitTicks(unit) - 1

\* a.diff(b, unit + "s")
diff(a, b, unit) == absFloor(a - b, UnitTicks(unit))

\* a.isSameOrBefore(b, unit): a.isSame(b, unit) || a.isBefore(b, unit), that
\* is startOf(a) <= b <= endOf(a) or endOf(a) < b
isSameOrBefore(a, b, unit) == startOf(a, unit) <= b

\* a.isSame(b, unit)
isSame(a, b, unit) == startOf(a, unit) = startOf(b, unit)

\* a.isBefore(b), a.isAfter(b) without a unit
isBefore(a, b) == a < b
isAfter(a, b) == a > b

\* m.add(n, unit)
addUnits(t, n, unit) == t + n * UnitTicks(unit)

PeriodOfView(view) == IF view = "daily" THEN "day" ELSE "week"

\* ------------------------------------------------------------ gantt-utils
\* Faulty variant: the loops compare the instants, current.isBefore(end), and so
\* leave out the period of end when current is not strictly before it.
RECURSIVE TimelineWalkStrict(_, _, _)
TimelineWalkStrict(current, end, unit) ==
    IF isBefore(current, end)
    THEN <<current>> \o TimelineWalkStrict(addUnits(current, 1, unit), end, unit)
    ELSE <<>>

generateTimelineDatesStrict(startDate, endDate, view) ==
    IF view = "daily"
    THEN TimelineWalkStrict(startDate, endDate, "day")
    ELSE TimelineWalkStrict(startOf(startDate, "week"), endDate, "week")

\* The while loops of generateTimelineDates
RECURSIVE TimelineWalk(_, _, _)
TimelineWalk(current, end, unit) ==
    IF isSameOrBefore(current, end, unit)
    THEN <<current>> \o TimelineWalk(addUnits(current, 1, unit), end, unit)
    ELSE <<>>

generateTimelineDates(startDate, endDate, view) ==
    IF view = "daily"
    THEN TimelineWalk(startDate, endDate, "day")
    ELSE TimelineWalk(startOf(startDate, "week"), endDate, "week")

\* Faulty variant: the duration counts the boundaries crossed, without the + 1 for
\* the inclusive last period and without the floor of one week.
calculateTaskPositionExclusive(task, config) ==
    IF config.view = "daily"
    THEN [left |-> diff(task.startDate, config.startDate, "day")
                       * config.cellWidth,
          width |-> diff(task.endDate, task.startDate, "day")
                        * config.cellWidth - 2]
    ELSE [left |-> diff(startOf(task.startDate, "week"),
                        startOf(config.startDate, "week"), "week")
                       * config.cellWidth,
          width |-> diff(startOf(task.endDate, "week"),
                         startOf(task.startDate, "week"), "week")
                        * config.cellWidth - 2]

\* Faulty variant: the weekly offset is taken from the dates as they are,
\* without snapping them to their weeks.
calculateTaskPositionUnsnapped(task, config) ==
    IF config.view = "daily"
    THEN [left |-> diff(task.startDate, config.startDate, "day")
                       * config.cellWidth,
          width |-> (diff(task.endDate, task.startDate, "day") + 1)
                        * config.cellWidth - 2]
    ELSE [left |-> diff(task.startDate, config.startDate, "week")
                       * config.cellWidth,
          width |-> Max2(1, diff(task.endDate, task.startDate, "week") + 1)
                        * config.cellWidth - 2]

calculateTaskPosition(task, config) ==
    IF config.view = "daily"
    THEN LET startDiff == diff(task.startDate, config.startDate, "day")
             duration == diff(task.endDate, task.startDate, "day") + 1
         IN [left |-> startDiff * config.cellWidth,
             width |-> duration * config.cellWidth - 2]
    ELSE LET configStartWeek == startOf(config.startDate, "week")
             taskStartWeek == startOf(task.startDate, "week")
             taskEndWeek == startOf(task.endDate, "week")
             weeksFromStart == diff(taskStartWeek, configStartWeek, "week")
             taskDurationInWeeks ==
                 Max2(1, diff(taskEndWeek, taskStartWeek, "week") + 1)
         IN [left |-> weeksFromStart * config.cellWidth,
             width |-> taskDurationInWeeks * config.cellWidth - 2]

\* Math.min(...tasks.map((t) => t.startDate.getTime()))
MinStartDate(taskList) ==
    CHOOSE m \in {taskList[i].startDate : i \in DOMAIN taskList} :
        \A i \in DOMAIN taskList : m <= taskList[i].startDate

\* Math.max(...tasks.map((t) => t.endDate.getTime()))
MaxEndDate(taskList) ==
    CHOOSE m \in {taskList[i].endDate : i \in DOMAIN taskList} :
        \A i \in DOMAIN taskList : m >= taskList[i].endDate

CellWidthOf(view) == IF view = "daily" THEN CellWidthDaily ELSE CellWidthWeekly

\* Faulty variant: the padding is applied inward, a week added to the start and a
\* week subtracted from the end.
calculateGanttDimensionsPadInward(taskList, view, now) ==
    IF Len(taskList) = 0
    THEN [startDate |-> now, endDate |-> now,
          cellWidth |-> CellWidthOf(view), rowHeight |-> RowHeight]
    ELSE LET startDate == MinStartDate(taskList)
             endDate == MaxEndDate(taskList)
         IN [startDate |-> IF view = "weekly"
                           THEN startOf(addUnits(startDate, 1, "week"), "week")
                           ELSE addUnits(startDate, 1, "week"),
             endDate |-> IF view = "weekly"
                         THEN endOf(addUnits(endDate, -1, "week"), "week")
                         ELSE addUnits(endDate, -1, "week"),
             cellWidth |-> CellWidthOf(view), rowHeight |-> RowHeight]

\* Faulty variant: the range is padded by a day, not by a week.
calculateGanttDimensionsPadDay(taskList, view, now) ==
    IF Len(taskList) = 0
    THEN [startDate |-> now, endDate |-> now,
          cellWidth |-> CellWidthOf(view), rowHeight |-> RowHeight]
    ELSE LET startDate == MinStartDate(taskList)
             endDate == MaxEndDate(taskList)
         IN [startDate |-> IF view = "weekly"
                           THEN startOf(addUnits(startDate, -1, "day"), "week")
                           ELSE addUnits(startDate, -1, "day"),
             endDate |-> IF view = "weekly"
                         THEN endOf(addUnits(endDate, 1, "day"), "week")
                         ELSE addUnits(endDate, 1, "day"),
             cellWidth |-> CellWidthOf(view), rowHeight |-> RowHeight]

\* now: the value of new Date() at the call
calculateGanttDimensions(taskList, view, now) ==
    IF Len(taskList) = 0
    THEN [startDate |-> now, endDate |-> now,
          cellWidth |-> CellWidthOf(view), rowHeight |-> RowHeight]
    ELSE LET startDate == MinStartDate(taskList)
             endDate == MaxEndDate(taskList)
             paddedStart ==
                 IF view = "weekly"
                 THEN startOf(addUnits(startDate, -1, "week"), "week")
                 ELSE addUnits(startDate, -1, "week")
             paddedEnd ==
                 IF view = "weekly"
                 THEN endOf(addUnits(endDate, 1, "week"), "week")
                 ELSE addUnits(endDate, 1, "week")
         IN [startDate |-> paddedStart, endDate |-> paddedEnd,
             cellWidth |-> CellWidthOf(view), rowHeight |-> RowHeight]

\* Gantt.tsx: config = { view, ...dimensions }
GanttConfig(taskList, view, now) ==
    LET d == calculateGanttDimensions(taskList, view, now)
    IN [view |-> view, startDate |-> d.startDate, endDate |-> d.endDate,
        cellWidth |-> d.cellWidth, rowHeight |-> d.rowHeight]

\* Faulty variant: the cell index is not clamped to the sequence.
getDateFromPositionUnclamped(x, config) ==
    LET timelineDates ==
            generateTimelineDates(config.startDate, config.endDate, config.view)
        cellIndex == MathRound(x, config.cellWidth)
    IN IF cellIndex + 1 \in DOMAIN timelineDates
       THEN timelineDates[cellIndex + 1]
       ELSE Undefined

\* GanttTaskBar.tsx
getDateFromPosition(x, config) ==
    LET timelineDates ==
            generateTimelineDates(config.startDate, config.endDate, config.view)
        cellIndex == MathRound(x, config.cellWidth)
        clampedIndex == Max2(0, Min2(cellIndex, Len(timelineDates) - 1))
    IN IF clampedIndex + 1 \in DOMAIN timelineDates
       THEN timelineDates[clampedIndex + 1]
       ELSE Undefined

\* =========================================================================
\* Variables of the render specification (Gantt.tsx render of a task list and
\* a group list), declared here for the frame conditions below.
\* =========================================================================
VARIABLES rTasks, rGroups, rView, rPc, rRows, rCalls

rvars == <<rTasks, rGroups, rView, rPc, rRows, rCalls>>

\* Variables of the store specification (store.ts over indexeddb.ts).
VARIABLES sDb, sMem, sLoading, sError, sQueue, sNextId, sDone, sStarted

svars == <<sDb, sMem, sLoading, sError, sQueue, sNextId, sDone, sStarted>>

\* The variables outside the utility and gesture specifications.
\* Variables of the export specification (export-utils.ts).
VARIABLES xTasks, xGroups, xZone, xPc, xJson, xParsed

xvars == <<xTasks, xGroups, xZone, xPc, xJson, xParsed>>

\* Variables of the initialization specification (store.ts initializeDB).
VARIABLES iInitialized, iCalls, iOpens, iChecks, iLoading, iError

ivars == <<iInitialized, iCalls, iOpens, iChecks, iLoading, iError>>

ovars == <<rvars, svars, xvars, ivars>>

\* =========================================================================
\* Utility specification: the functions of gantt-utils.ts and the inverse
\* mapper applied to task lists and ranges drawn from the bounded date set.
\* =========================================================================
VARIABLES uTasks, uView, uPc, uFromTasks, uConfig, uTimeline, uPositions,
          uInverse, uEdge, uProbe, clock

uvars == <<uTasks, uView, uPc, uFromTasks, uConfig, uTimeline, uPositions,
           uInverse, uEdge, uProbe, clock>>

\* Largest task list the range calculator is applied to.
MaxUtilTasks == 2

UtilTicks == (FirstDay * TicksPerDay) .. (LastDay * TicksPerDay + TicksPerDay - 1)

UtilTask(i, s, e) == [id |-> i, startDate |-> s, endDate |-> e]

RECURSIVE UtilTaskLists(_)
UtilTaskLists(n) ==
    IF n = 0 THEN {<<>>}
    ELSE {Append(l, UtilTask(n, s, e)) :
              l \in UtilTaskLists(n - 1), s \in UtilTicks, e \in UtilTicks}

NoConfig == [view |-> "none"]
NoProbe == [probed |-> FALSE]

\* Pixel offsets handed to the inverse mapper: left of the chart, on and
\* beside the middle of a cell, and beyond the end of the chart.
ProbeXs ==
    {-(CellWidthWeekly + 1), -(CellWidthDaily \div 2), -(CellWidthDaily \div 2) - 1,
     CellWidthDaily \div 2 - 1, CellWidthDaily \div 2,
     CellWidthWeekly + CellWidthWeekly \div 2,
     (LastDay + DaysPerWeek + 1) * CellWidthWeekly}

InitUtilVars ==
    /\ uTasks \in UNION {UtilTaskLists(n) : n \in 1..MaxUtilTasks}
    /\ uView \in Views
    /\ uPc = "input"
    /\ uFromTasks = FALSE
    /\ uConfig = NoConfig
    /\ uTimeline = <<>>
    /\ uPositions = <<>>
    /\ uInverse = <<>>
    /\ uEdge = <<>>
    /\ uProbe = NoProbe
    /\ clock = FirstDay * TicksPerDay

\* Gantt.tsx: config = useMemo(calculateGanttDimensions(allTasks, view))
UseDimensions ==
    /\ uPc = "input"
    /\ uConfig' = GanttConfig(uTasks, uView, clock)
    /\ uFromTasks' = TRUE
    /\ uPc' = "config"
    /\ UNCHANGED <<uTasks, uView, uTimeline, uPositions, uInverse, uEdge,
                   uProbe, clock>>

\* A caller passing a config of its own to the utilities, with one task.
UseConfig(s, e) ==
    /\ uPc = "input"
    /\ Len(uTasks) = 1
    /\ uConfig' = [view |-> uView, startDate |-> s, endDate |-> e,
                   cellWidth |-> CellWidthOf(uView), rowHeight |-> RowHeight]
    /\ uFromTasks' = FALSE
    /\ uPc' = "config"
    /\ UNCHANGED <<uTasks, uView, uTimeline, uPositions, uInverse, uEdge,
                   uProbe, clock>>

\* Gantt.tsx: timelineDates = useMemo(generateTimelineDates(config...))
Enumerate ==
    /\ uPc = "config"
    /\ uTimeline' = generateTimelineDates(uConfig.startDate, uConfig.endDate,
                                          uConfig.view)
    /\ uPc' = "timeline"
    /\ UNCHANGED <<uTasks, uView, uFromTasks, uConfig, uPositions, uInverse,
                   uEdge, uProbe, clock>>

\* GanttTaskBar.tsx: position = calculateTaskPosition(task, config) of every
\* bar, and the inverse mapper applied to the bar's own offset and to the
\* offset of its end edge, position.left + position.width.
PositionBars ==
    /\ uPc = "timeline"
    /\ uPositions' = [i \in DOMAIN uTasks |->
                          calculateTaskPosition(uTasks[i], uConfig)]
    /\ uInverse' = [i \in DOMAIN uTasks |->
                        getDateFromPosition(
                            calculateTaskPosition(uTasks[i], uConfig).left,
                            uConfig)]
    /\ uEdge' = [i \in DOMAIN uTasks |->
                     getDateFromPosition(
                         calculateTaskPosition(uTasks[i], uConfig).left
                             + calculateTaskPosition(uTasks[i], uConfig).width,
                         uConfig)]
    /\ uPc' = "done"
    /\ UNCHANGED <<uTasks, uView, uFromTasks, uConfig, uTimeline, uProbe,
                   clock>>

\* GanttTaskBar.tsx: getDateFromPosition(x) of a pointer move
Probe(x) ==
    /\ uPc = "done"
    /\ uProbe' = [probed |-> TRUE, x |-> x,
                  date |-> getDateFromPosition(x, uConfig)]
    /\ uPc' = "probed"
    /\ UNCHANGED <<uTasks, uView, uFromTasks, uConfig, uTimeline, uPositions,
                   uInverse, uEdge, clock>>

\* =========================================================================
\* Gesture specification: the task bar's drag/resize gesture, the add-task
\* dialog and the edit-task sheet, the store's createTask/updateTask, and the
\* IndexedDB task store they write through. The requests to IndexedDB of
\* this specification succeed.
\* =========================================================================
VARIABLES tasks, dbTasks, dbQueue, nextId, isLoading, error, view, bars,
          listeners, lastMove

gvars == <<tasks, dbTasks, dbQueue, nextId, isLoading, error, view, bars,
           listeners, lastMove>>

vars == <<uvars, gvars, ovars>>

\* Tasks the add-task dialog may create.
MaxTasks == 1
\* Requests waiting in the IndexedDB task store.
MaxQueue == 2
\* Mouse-move listeners registered on the document at once.
MaxListeners == 2
\* Of these, the listeners whose branch of handleMouseMove can run.
MaxLiveListeners == 1
\* Listeners and waiting requests together.
MaxInFlight == MaxListeners + MaxQueue - 1

\* clientX of a mouse event
PointerXs == {0, CellWidthDaily + CellWidthDaily \div 2}

\* The dates the date picker offers: local midnights.
DialogDates == {d * TicksPerDay : d \in FirstDay..(LastDay + 1)}

InDateRange(t) == t >= FirstDay * TicksPerDay /\ t < (LastDay + 2) * TicksPerDay

GestureTypes == {"drag", "resize-left", "resize-right"}
NoMove == [id |-> 0]
NoError == "null"

TaskIds(ts) == {ts[i].id : i \in DOMAIN ts}
TaskById(ts, id) == ts[CHOOSE i \in DOMAIN ts : ts[i].id = id]

\* { ...t, ...updates }
Merge(t, updates) ==
    [k \in DOMAIN t \cup DOMAIN updates |->
        IF k \in DOMAIN updates THEN updates[k] ELSE t[k]]

NoFields == [k \in {} |-> 0]

\* jMoment(d): moment of an undefined input is the current time
jMoment(d) == IF d = Undefined THEN clock ELSE d

\* useState initial values of a mounted GanttTaskBar (isDragging, which only
\* styles the bar, is left out)
NewBar == [isResizing |-> "null", dragStartX |-> 0]

Request(op, id, updates, origin) ==
    [op |-> op, id |-> id, updates |-> updates, origin |-> origin]

\* Whether handleMouseMove of a listener registered by a mouse-down of this
\* type, closing over this isResizing, has a branch that can run.
IsLive(type, isResizing) ==
    \/ type = "drag"
    \/ type = "resize-left" /\ isResizing = "left"
    \/ type = "resize-right" /\ isResizing = "right"

LiveListeners == {i \in DOMAIN listeners :
                     IsLive(listeners[i].type, listeners[i].isResizing)}

\* newPosition = position.left - (e.clientX - dragStart.x)
NewPosition(l, x) ==
    calculateTaskPosition(l.task, l.config).left - (x - l.dragStartX)

\* Faulty variant: the new end date is placed a day past the preserved duration.
DragUpdatesInclusive(l, x) ==
    LET newStartDate == getDateFromPosition(NewPosition(l, x), l.config)
        taskDuration == diff(jMoment(l.task.endDate), jMoment(l.task.startDate),
                             "day") + 1
    IN <<[startDate |-> newStartDate,
          endDate |-> addUnits(jMoment(newStartDate), taskDuration, "day")]>>

\* handleMouseMove, type === "drag"
DragUpdates(l, x) ==
    LET newStartDate == getDateFromPosition(NewPosition(l, x), l.config)
        taskDuration == diff(jMoment(l.task.endDate), jMoment(l.task.startDate),
                             "day")
        newEndDate == addUnits(jMoment(newStartDate), taskDuration, "day")
    IN <<[startDate |-> newStartDate, endDate |-> newEndDate]>>

ResizeLeftCandidate(l, x) == getDateFromPosition(NewPosition(l, x), l.config)

\* handleMouseMove, type === "resize-left" && isResizing === "left"
ResizeLeftUpdates(l, x) ==
    LET newStartDate == ResizeLeftCandidate(l, x)
    IN IF isBefore(jMoment(newStartDate), jMoment(l.task.endDate))
       THEN <<[startDate |-> newStartDate]>>
       ELSE <<>>

ResizeRightCandidate(l, x) ==
    getDateFromPosition(
        NewPosition(l, x) + calculateTaskPosition(l.task, l.config).width,
        l.config)

\* handleMouseMove, type === "resize-right" && isResizing === "right"
ResizeRightUpdates(l, x) ==
    LET newEndDate == ResizeRightCandidate(l, x)
    IN IF isAfter(jMoment(newEndDate), jMoment(l.task.startDate))
       THEN <<[endDate |-> newEndDate]>>
       ELSE <<>>

\* handleMouseMove of one listener: the onTaskUpdate calls it makes
handleMouseMove(l, x) ==
    IF l.type = "drag" THEN DragUpdates(l, x)
    ELSE IF l.type = "resize-left" /\ l.isResizing = "left"
         THEN ResizeLeftUpdates(l, x)
    ELSE IF l.type = "resize-right" /\ l.isResizing = "right"
         THEN ResizeRightUpdates(l, x)
    ELSE <<>>

\* The updateTask requests one mousemove event issues: every registered
\* listener runs, in registration order.
RECURSIVE MoveRequests(_, _)
MoveRequests(ls, x) ==
    IF ls = <<>> THEN <<>>
    ELSE LET l == Head(ls)
             ups == handleMouseMove(l, x)
         IN (IF ups = <<>> THEN <<>>
             ELSE <<Request("update", l.task.id, ups[1], l.type)>>)
            \o MoveRequests(Tail(ls), x)

RequestInRange(r) == \A k \in DOMAIN r.updates : InDateRange(r.updates[k])

RECURSIVE MergeAll(_, _)
\* the fields the requests rs set on task id, later requests winning
MergeAll(rs, id) ==
    IF rs = <<>> THEN NoFields
    ELSE IF Head(rs).id = id
         THEN Merge(Head(rs).updates, MergeAll(Tail(rs), id))
         ELSE MergeAll(Tail(rs), id)

\* Record of the last pointer move that dragged a bar: the task, the dates
\* that move asked for, and how many moves of drags led to it (at most 2).
NextLastMove(reqs) ==
    LET drags == {i \in DOMAIN reqs : reqs[i].origin = "drag"}
    IN IF drags # {}
       THEN LET id == reqs[CHOOSE i \in drags : \A j \in drags : j <= i].id
            IN [id |-> id, updates |-> MergeAll(reqs, id),
                n |-> IF lastMove.id = id THEN Min2(lastMove.n + 1, 2) ELSE 1]
       ELSE IF \E i \in DOMAIN reqs : reqs[i].id = lastMove.id
            THEN NoMove
            ELSE lastMove

InitGestureVars ==
    /\ tasks = <<>>
    /\ dbTasks = <<>>
    /\ dbQueue = <<>>
    /\ nextId = 1
    /\ isLoading = FALSE
    /\ error = NoError
    /\ view = "daily"
    /\ bars = <<>>
    /\ listeners = <<>>
    /\ lastMove = NoMove

\* page.tsx handleAddTask with the dates s, e picked in the dialog, up to
\* the await of dbManager.addTask inside createTask
AddTask(s, e, colored) ==
    /\ nextId <= MaxTasks
    /\ Len(dbQueue) < MaxQueue
    /\ Len(listeners) + Len(dbQueue) < MaxInFlight
    /\ IF e < s
       THEN UNCHANGED gvars
       ELSE /\ isLoading' = TRUE
            /\ error' = NoError
            /\ dbQueue' = Append(dbQueue,
                   Request("add", nextId, [startDate |-> s, endDate |-> e],
                           IF colored THEN "add-colored" ELSE "add"))
            /\ nextId' = nextId + 1
            /\ UNCHANGED <<tasks, dbTasks, view, bars, listeners, lastMove>>
    /\ UNCHANGED <<uvars, ovars>>

\* page.tsx handleEditTask on the selected task with the dates s, e, up to
\* the await of dbManager.updateTask inside updateTask
EditTask(id, s, e) ==
    /\ id \in TaskIds(tasks)
    /\ Len(dbQueue) < MaxQueue
    /\ Len(listeners) + Len(dbQueue) < MaxInFlight
    /\ IF e < s
       THEN UNCHANGED gvars
       ELSE /\ dbQueue' = Append(dbQueue,
                   Request("update", id, [startDate |-> s, endDate |-> e],
                           "edit"))
            /\ lastMove' = IF lastMove.id = id THEN NoMove ELSE lastMove
            /\ UNCHANGED <<tasks, dbTasks, nextId, isLoading, error, view, bars,
                           listeners>>
    /\ UNCHANGED <<uvars, ovars>>

\* Gantt.tsx handleViewChange
SetView(v) ==
    /\ v # view
    /\ view' = v
    /\ UNCHANGED <<tasks, dbTasks, dbQueue, nextId, isLoading, error, bars,
                   listeners, lastMove>>
    /\ UNCHANGED <<uvars, ovars>>

\* The listener handleMouseDown registers: it closes over the values of the
\* render before the event. A listener none of whose branches can run reads
\* nothing of what it closed over but its type and isResizing.
Listener(id, type) ==
    IF IsLive(type, bars[id].isResizing)
    THEN [type |-> type,
          task |-> TaskById(tasks, id),
          config |-> GanttConfig(tasks, view, clock),
          dragStartX |-> bars[id].dragStartX,
          isResizing |-> bars[id].isResizing]
    ELSE [type |-> type,
          task |-> [id |-> id],
          isResizing |-> bars[id].isResizing]

\* GanttTaskBar.tsx handleMouseDown on the bar of task id
MouseDown(id, type, x) ==
    /\ id \in TaskIds(tasks)
    /\ Len(listeners) < MaxListeners
    /\ Len(listeners) + Len(dbQueue) < MaxInFlight
    /\ IsLive(type, bars[id].isResizing)
           => Cardinality(LiveListeners) < MaxLiveListeners
    /\ bars' = [bars EXCEPT ![id] =
                   [isResizing |-> IF type = "resize-left" THEN "left"
                                   ELSE IF type = "resize-right" THEN "right"
                                   ELSE @.isResizing,
                    dragStartX |-> x]]
    /\ listeners' = Append(listeners, Listener(id, type))
    /\ UNCHANGED <<tasks, dbTasks, dbQueue, nextId, isLoading, error, view,
                   lastMove>>
    /\ UNCHANGED <<uvars, ovars>>

\* A mousemove event on the document with clientX = x
MouseMove(x) ==
    /\ listeners # <<>>
    /\ LET reqs == MoveRequests(listeners, x)
       IN /\ Len(dbQueue) + Len(reqs) <= MaxQueue
          /\ Len(listeners) + Len(dbQueue) + Len(reqs) <= MaxInFlight
          /\ \A i \in DOMAIN reqs : RequestInRange(reqs[i])
          /\ dbQueue' = dbQueue \o reqs
          /\ lastMove' = NextLastMove(reqs)
    /\ UNCHANGED <<tasks, dbTasks, nextId, isLoading, error, view, bars,
                   listeners>>
    /\ UNCHANGED <<uvars, ovars>>

\* A mouseup event on the document: handleMouseUp of every listener
MouseUp ==
    /\ listeners # <<>>
    /\ bars' = [id \in DOMAIN bars |->
                   IF \E i \in DOMAIN listeners : listeners[i].task.id = id
                   THEN [bars[id] EXCEPT !.isResizing = "null"]
                   ELSE bars[id]]
    /\ listeners' = <<>>
    /\ UNCHANGED <<tasks, dbTasks, dbQueue, nextId, isLoading, error, view,
                   lastMove>>
    /\ UNCHANGED <<uvars, ovars>>

\* Faulty variant: the task store serves the request issued last first.
NextRequestLast(q) == Len(q)

\* The request the IndexedDB task store serves next: readwrite transactions
\* on one object store run in the order they were created.
NextRequest(q) == 1

RemoveAt(q, i) == SubSeq(q, 1, i - 1) \o SubSeq(q, i + 1, Len(q))

\* store.ts updateTask after the await:
\* tasks.map(t => t.id === id ? { ...t, ...updates } : t)
updateTask(ts, id, updates) ==
    [i \in DOMAIN ts |-> IF ts[i].id = id THEN Merge(ts[i], updates) ELSE ts[i]]

\* indexeddb.ts addTask / updateTask succeed, and the store action resumes
DbSucceed ==
    /\ dbQueue # <<>>
    /\ LET i == NextRequest(dbQueue)
           r == dbQueue[i]
           rest == RemoveAt(dbQueue, i)
       IN IF r.op = "add"
          THEN LET task == Merge([id |-> r.id], r.updates)
               IN /\ dbTasks' = [k \in DOMAIN dbTasks \cup {r.id} |->
                                    IF k = r.id THEN task ELSE dbTasks[k]]
                  /\ tasks' = Append(tasks, task)
                  /\ bars' = [k \in DOMAIN bars \cup {r.id} |->
                                 IF k = r.id THEN NewBar ELSE bars[k]]
                  /\ isLoading' = FALSE
                  /\ dbQueue' = IF r.origin = "add-colored"
                                THEN Append(rest, Request("update", r.id,
                                                          NoFields, "color"))
                                ELSE rest
          ELSE /\ r.id \in DOMAIN dbTasks
               /\ dbTasks' = [dbTasks EXCEPT ![r.id] = Merge(@, r.updates)]
               /\ tasks' = updateTask(tasks, r.id, r.updates)
               /\ dbQueue' = rest
               /\ UNCHANGED <<bars, isLoading>>
    /\ UNCHANGED <<nextId, error, view, listeners, lastMove>>
    /\ UNCHANGED <<uvars, ovars>>

NextGestureVars ==
    \/ \E s \in DialogDates, e \in DialogDates, colored \in BOOLEAN :
           AddTask(s, e, colored)
    \/ \E id \in TaskIds(tasks), s \in DialogDates, e \in DialogDates :
           EditTask(id, s, e)
    \/ \E v \in Views : SetView(v)
    \/ \E id \in TaskIds(tasks), type \in GestureTypes, x \in PointerXs :
           MouseDown(id, type, x)
    \/ \E x \in PointerXs : MouseMove(x)
    \/ MouseUp
    \/ DbSucceed

\* =========================================================================
\* Render specification: Gantt.tsx organizes a task list and a group list
\* into rows, extracts the tasks of the rows and computes the chart range
\* from them, at each render.
\* =========================================================================
\* Largest task list and group list the row organizer is applied to.
MaxRowTasks == 3
MaxRowGroups == 2
\* Renders of one input, and advances of the clock between them.
MaxRenders == 2
MaxClockTicks == 1

\* A task's groupId when it has none (undefined, falsy)
NoGroupId == ""
\* the key organizedRows files the tasks without a group under
UngroupedKey == "ungrouped"
\* ids a group can have: generated ones and, by import, any string
GroupIdValues == {"g1", "g2", UngroupedKey}

RowTask(i, g) ==
    [id |-> i, groupId |-> g,
     startDate |-> (FirstDay + (i % 2)) * TicksPerDay,
     endDate |-> (FirstDay + 1) * TicksPerDay]

RECURSIVE RowTaskLists(_)
RowTaskLists(n) ==
    IF n = 0 THEN {<<>>}
    ELSE {Append(l, RowTask(n, g)) :
              l \in RowTaskLists(n - 1), g \in GroupIdValues \cup {NoGroupId}}

\* group lists: the ids of a store's groups are distinct (keyPath "id")
RowGroupLists(n) ==
    {gs \in [1..n -> GroupIdValues] : \A i, j \in 1..n : gs[i] = gs[j] => i = j}

\* const groupId = task.groupId || "ungrouped"
GroupKey(task) ==
    IF task.groupId = NoGroupId THEN UngroupedKey ELSE task.groupId

\* tasksByGroup[key] || []: the tasks reduce filed under key, in list order
tasksByGroup(taskList, key) ==
    SelectSeq(taskList, LAMBDA t : GroupKey(t) = key)

\* Faulty variant: the index advances on task rows only.
PushRowTaskIndex(acc, type, id, data) ==
    [rows |-> Append(acc.rows,
                     [type |-> type, id |-> id, data |-> data,
                      index |-> acc.index]),
     index |-> IF type = "task" THEN acc.index + 1 ELSE acc.index]

\* rows.push({ type, id, data, index: index++ })
PushRow(acc, type, id, data) ==
    [rows |-> Append(acc.rows,
                     [type |-> type, id |-> id, data |-> data,
                      index |-> acc.index]),
     index |-> acc.index + 1]

RECURSIVE PushTaskRows(_, _)
\* groupTasks.forEach / ungroupedTasks.forEach
PushTaskRows(acc, taskList) ==
    IF taskList = <<>> THEN acc
    ELSE PushTaskRows(PushRow(acc, "task", Head(taskList).id, Head(taskList)),
                      Tail(taskList))

RECURSIVE PushGroupRows(_, _, _)
\* groups.forEach
PushGroupRows(acc, groupList, taskList) ==
    IF groupList = <<>> THEN acc
    ELSE PushGroupRows(
             PushTaskRows(PushRow(acc, "group", Head(groupList), Head(groupList)),
                          tasksByGroup(taskList, Head(groupList))),
             Tail(groupList), taskList)

organizedRows(taskList, groupList) ==
    PushTaskRows(PushGroupRows([rows |-> <<>>, index |-> 0], groupList, taskList),
                 tasksByGroup(taskList, UngroupedKey)).rows

\* organizedRows.filter((row) => row.type === "task").map((row) => row.data)
allTasks(rows) ==
    LET taskRows == SelectSeq(rows, LAMBDA r : r.type = "task")
    IN [i \in DOMAIN taskRows |-> taskRows[i].data]

InitIdleRender ==
    /\ rTasks = <<>>
    /\ rGroups = <<>>
    /\ rView = "daily"
    /\ rPc = "idle"
    /\ rRows = <<>>
    /\ rCalls = <<>>

InitRenderVars ==
    /\ rTasks \in UNION {RowTaskLists(n) : n \in 0..MaxRowTasks}
    /\ rGroups \in UNION {RowGroupLists(n) : n \in 0..MaxRowGroups}
    /\ rView \in Views
    /\ rPc = "input"
    /\ rRows = <<>>
    /\ rCalls = <<>>

uRest == <<uTasks, uView, uPc, uFromTasks, uConfig, uTimeline, uPositions,
           uInverse, uEdge, uProbe>>

\* Gantt.tsx: organizedRows = useMemo(...)
Organize ==
    /\ rPc = "input"
    /\ rRows' = organizedRows(rTasks, rGroups)
    /\ rPc' = "rows"
    /\ UNCHANGED <<rTasks, rGroups, rView, rCalls>>
    /\ UNCHANGED <<uvars, gvars, svars, xvars, ivars>>

\* Gantt.tsx: dimensions = calculateGanttDimensions(allTasks, view)
Dimension ==
    /\ rPc = "rows"
    /\ Len(rCalls) < MaxRenders
    /\ rCalls' = Append(rCalls,
                        calculateGanttDimensions(allTasks(rRows), rView, clock))
    /\ UNCHANGED <<rTasks, rGroups, rView, rPc, rRows>>
    /\ UNCHANGED <<uvars, gvars, svars, xvars, ivars>>

\* Time passes.
Tick ==
    /\ rPc = "rows"
    /\ clock < FirstDay * TicksPerDay + MaxClockTicks
    /\ clock' = clock + 1
    /\ UNCHANGED <<uRest, gvars, rvars, svars, xvars, ivars>>

\* =========================================================================
\* Store specification: the actions of store.ts on projects, tasks and
\* groups, each writing through IndexedDBManager and then updating the
\* in-memory state; the requests to IndexedDB succeed or are rejected.
\* sDb is the database (its three object stores), sMem the zustand state,
\* sQueue the requests in flight, sDone the last store action that settled.
\* =========================================================================
\* Ids generateId hands out.
MaxIds == 3
\* Requests to IndexedDB in flight.
MaxStoreQueue == 1
\* Store actions the application starts.
MaxStoreActions == 4
Null == [id |-> Undefined]
NoneDone == [action |-> "none"]

\* ids of imported documents: the project id may be that of a stored project
ImportedProjectIds == {1, MaxIds + 1}
ImportedGroupId == MaxIds + 2
ImportedTaskId == MaxIds + 3

Ids(recs) == {r.id : r \in recs}
SeqIds(recs) == {recs[i].id : i \in DOMAIN recs}

RECURSIVE SortById(_)
\* getAll: the records in key order
SortById(recs) ==
    IF recs = {} THEN <<>>
    ELSE LET r == CHOOSE x \in recs : \A y \in recs : x.id <= y.id
         IN <<r>> \o SortById(recs \ {r})

\* task.groupId, undefined when the property is absent
GroupIdOf(t) == IF "groupId" \in DOMAIN t THEN t.groupId ELSE Undefined

\* delete updatedTask.groupId
WithoutGroupId(t) == [k \in DOMAIN t \ {"groupId"} |-> t[k]]

\* ------------------------------------------------ IndexedDBManager
\* store.add(record): rejected when the key exists
CanAdd(recs, r) == r.id \notin Ids(recs)

\* store.get(id) then store.put({ ...existing, ...updates })
PutMerged(recs, id, updates) ==
    {IF r.id = id THEN Merge(r, updates) ELSE r : r \in recs}

\* Faulty variant: the groups of the project are left behind.
dbDeleteProjectKeepsGroups(db, id) ==
    [projects |-> {r \in db.projects : r.id # id},
     tasks |-> {r \in db.tasks : r.projectId # id},
     groups |-> db.groups]

\* indexeddb.ts deleteProject: one transaction over the three stores
dbDeleteProject(db, id) ==
    [projects |-> {r \in db.projects : r.id # id},
     tasks |-> {r \in db.tasks : r.projectId # id},
     groups |-> {r \in db.groups : r.projectId # id}]

\* Faulty variant: the member tasks are deleted with their group.
dbDeleteGroupCascade(db, id) ==
    [projects |-> db.projects,
     tasks |-> {r \in db.tasks : GroupIdOf(r) # id},
     groups |-> {r \in db.groups : r.id # id}]

\* indexeddb.ts deleteGroup: one transaction over groups and tasks
dbDeleteGroup(db, id) ==
    [projects |-> db.projects,
     tasks |-> {IF GroupIdOf(r) = id THEN WithoutGroupId(r) ELSE r :
                    r \in db.tasks},
     groups |-> {r \in db.groups : r.id # id}]

\* Whether IndexedDB can carry out the request on db.
CanSucceed(db, r) ==
    CASE r.op = "addProject" -> CanAdd(db.projects, r.rec)
      [] r.op = "addTask" -> CanAdd(db.tasks, r.rec)
      [] r.op = "addGroup" -> CanAdd(db.groups, r.rec)
      [] r.op = "updateProject" -> r.id \in Ids(db.projects)
      [] r.op = "updateTask" -> r.id \in Ids(db.tasks)
      [] r.op = "updateGroup" -> r.id \in Ids(db.groups)
      [] OTHER -> TRUE

\* The database after the request has been carried out.
Applied(db, r) ==
    CASE r.op = "addProject" -> [db EXCEPT !.projects = @ \cup {r.rec}]
      [] r.op = "addTask" -> [db EXCEPT !.tasks = @ \cup {r.rec}]
      [] r.op = "addGroup" -> [db EXCEPT !.groups = @ \cup {r.rec}]
      [] r.op = "updateProject" ->
             [db EXCEPT !.projects = PutMerged(@, r.id, r.updates)]
      [] r.op = "updateTask" ->
             [db EXCEPT !.tasks = PutMerged(@, r.id, r.updates)]
      [] r.op = "updateGroup" ->
             [db EXCEPT !.groups = PutMerged(@, r.id, r.updates)]
      [] r.op = "deleteProject" -> dbDeleteProject(db, r.id)
      [] r.op = "deleteTask" ->
             [db EXCEPT !.tasks = {t \in @ : t.id # r.id}]
      [] r.op = "deleteGroup" -> dbDeleteGroup(db, r.id)
      [] OTHER -> db

\* ------------------------------------------------------- store.ts
\* The store actions that set isLoading while they run.
LoadingActions ==
    {"createProject", "updateProject", "deleteProject", "createTask",
     "deleteTask", "createGroup", "deleteGroup", "loadProjects",
     "loadTasksForProject", "importProjectData"}

\* The store actions that rethrow to their caller what the database rejects.
ThrowingActions ==
    {"createProject", "updateProject", "deleteProject", "createTask",
     "updateTask", "deleteTask", "createGroup", "updateGroup", "deleteGroup",
     "importProjectData"}

\* Faulty variant: updateTask and updateGroup only log the rejection.
ErrorMessageUpdatesSilent(action) ==
    IF action \in {"updateTask", "updateGroup"} THEN NoError ELSE "Failed"

\* set({ error: "Failed to ..." }) of the action's catch block; the
\* wording, which differs from action to action, is left out.
ErrorMessage(action) == "Failed"

StoreRequest(op, action, fields) ==
    Merge([op |-> op, action |-> action], fields)

MapSeq(recs, id, updates) ==
    [i \in DOMAIN recs |->
        IF recs[i].id = id THEN Merge(recs[i], updates) ELSE recs[i]]

FilterSeq(recs, id) == SelectSeq(recs, LAMBDA r : r.id # id)

\* The set((state) => ...) a store action runs after its await, on the
\* database db the request has left behind.
MemAfter(mem, r, db) ==
    CASE r.action = "createProject" ->
             [mem EXCEPT !.projects = Append(@, r.rec)]
      [] r.action = "updateProject" ->
             [mem EXCEPT !.projects = MapSeq(@, r.id, r.updates),
                         !.currentProject =
                             IF @.id = r.id THEN Merge(@, r.updates) ELSE @]
      [] r.action = "deleteProject" ->
             [projects |-> FilterSeq(mem.projects, r.id),
              currentProject |->
                  IF mem.currentProject.id = r.id THEN Null
                  ELSE mem.currentProject,
              tasks |-> IF mem.currentProject.id = r.id THEN <<>>
                        ELSE mem.tasks,
              groups |-> IF mem.currentProject.id = r.id THEN <<>>
                         ELSE mem.groups]
      [] r.action = "createTask" -> [mem EXCEPT !.tasks = Append(@, r.rec)]
      [] r.action = "updateTask" ->
             [mem EXCEPT !.tasks = MapSeq(@, r.id, r.updates)]
      [] r.action = "deleteTask" ->
             [mem EXCEPT !.tasks = FilterSeq(@, r.id)]
      [] r.action = "createGroup" -> [mem EXCEPT !.groups = Append(@, r.rec)]
      [] r.action = "updateGroup" ->
             [mem EXCEPT !.groups = MapSeq(@, r.id, r.updates)]
      [] r.action = "deleteGroup" ->
             [mem EXCEPT !.groups = FilterSeq(@, r.id),
                         !.tasks = [i \in DOMAIN @ |->
                                       IF GroupIdOf(@[i]) = r.id
                                       THEN Merge(@[i], [groupId |-> Undefined])
                                       ELSE @[i]]]
      [] r.action = "loadProjects" ->
             [mem EXCEPT !.projects = SortById(db.projects)]
      [] r.action = "loadTasksForProject" ->
             [mem EXCEPT !.tasks =
                             SortById({t \in db.tasks : t.projectId = r.id})]
      [] r.action = "loadGroupsForProject" ->
             [mem EXCEPT !.groups =
                             SortById({g \in db.groups : g.projectId = r.id})]
      [] OTHER -> mem

\* The reads setCurrentProject starts: loadTasksForProject and
\* loadGroupsForProject, neither awaited.
ProjectLoads(id) ==
    <<StoreRequest("getTasksByProject", "loadTasksForProject", [id |-> id]),
      StoreRequest("getGroupsByProject", "loadGroupsForProject", [id |-> id])>>

\* Whether setCurrentProject(project) returns at once.
SameProject(mem, project) == mem.currentProject.id = project.id

\* The requests importProjectData awaits one after the other.
ImportSteps(doc) ==
    <<StoreRequest("addProject", "importProjectData", [rec |-> doc.project])>>
    \o [i \in DOMAIN doc.groups |->
           StoreRequest("addGroup", "importProjectData",
                        [rec |-> doc.groups[i]])]
    \o [i \in DOMAIN doc.tasks |->
           StoreRequest("addTask", "importProjectData", [rec |-> doc.tasks[i]])]
    \o <<StoreRequest("getAllProjects", "importProjectData",
                      [inner |-> "loadProjects"])>>

StoreTask(id, projectId, g, s, e) ==
    [id |-> id, projectId |-> projectId, groupId |-> g,
     startDate |-> s, endDate |-> e]

\* The documents parseImportedJSON hands to importProjectData: one project,
\* one group and one task of the group, the dates of which are in either
\* order.
ImportDocs ==
    {[project |-> [id |-> pid, name |-> "imported"],
      groups |-> <<[id |-> ImportedGroupId, projectId |-> pid,
                    title |-> "imported"]>>,
      tasks |-> <<[id |-> ImportedTaskId, projectId |-> pid,
                   groupId |-> ImportedGroupId,
                   startDate |-> d[1] * TicksPerDay,
                   endDate |-> d[2] * TicksPerDay]>>] :
         pid \in ImportedProjectIds,
         d \in {<<FirstDay, LastDay>>, <<LastDay, FirstDay>>}}

InitIdleStore ==
    /\ sDb = [projects |-> {}, tasks |-> {}, groups |-> {}]
    /\ sMem = [projects |-> <<>>, currentProject |-> Null, tasks |-> <<>>,
               groups |-> <<>>]
    /\ sLoading = FALSE
    /\ sError = NoError
    /\ sQueue = <<>>
    /\ sNextId = 1
    /\ sDone = NoneDone
    /\ sStarted = 0

\* A store action starts: it runs up to its first await, which leaves the
\* requests reqs in flight.
Start(action, reqs) ==
    /\ Len(sQueue) < MaxStoreQueue
    /\ sStarted < MaxStoreActions
    /\ sStarted' = sStarted + 1
    /\ sQueue' = sQueue \o reqs
    /\ sLoading' = IF action \in LoadingActions THEN TRUE ELSE sLoading
    /\ sError' = IF action \in LoadingActions THEN NoError ELSE sError
    /\ UNCHANGED <<sDb, sDone>>
    /\ UNCHANGED <<uvars, gvars, rvars, xvars, ivars>>

CreateProject ==
    /\ sNextId <= MaxIds
    /\ Start("createProject",
             <<StoreRequest("addProject", "createProject",
                            [rec |-> [id |-> sNextId, name |-> "a"]])>>)
    /\ sNextId' = sNextId + 1
    /\ UNCHANGED sMem

UpdateProject(id) ==
    /\ id \in SeqIds(sMem.projects)
    /\ Start("updateProject",
             <<StoreRequest("updateProject", "updateProject",
                            [id |-> id, updates |-> [name |-> "b"]])>>)
    /\ UNCHANGED <<sMem, sNextId>>

DeleteProject(id) ==
    /\ id \in SeqIds(sMem.projects)
    /\ Start("deleteProject",
             <<StoreRequest("deleteProject", "deleteProject", [id |-> id])>>)
    /\ UNCHANGED <<sMem, sNextId>>

\* store.ts setCurrentProject
SetCurrentProject(project) ==
    /\ ~ SameProject(sMem, project)
    /\ IF project = Null
       THEN /\ sMem' = [sMem EXCEPT !.currentProject = Null,
                                    !.tasks = <<>>, !.groups = <<>>]
            /\ sStarted < MaxStoreActions
            /\ sStarted' = sStarted + 1
            /\ UNCHANGED <<sDb, sLoading, sError, sQueue, sDone>>
            /\ UNCHANGED <<uvars, gvars, rvars, xvars, ivars>>
       ELSE /\ sMem' = [sMem EXCEPT !.currentProject = project]
            /\ Start("loadTasksForProject", ProjectLoads(project.id))
    /\ UNCHANGED sNextId

CreateTask(g) ==
    /\ sMem.currentProject # Null
    /\ sNextId <= MaxIds
    /\ Start("createTask",
             <<StoreRequest("addTask", "createTask",
                   [rec |-> StoreTask(sNextId, sMem.currentProject.id, g,
                                      FirstDay * TicksPerDay,
                                      FirstDay * TicksPerDay)])>>)
    /\ sNextId' = sNextId + 1
    /\ UNCHANGED sMem

UpdateTask(id, g) ==
    /\ id \in SeqIds(sMem.tasks)
    /\ Start("updateTask",
             <<StoreRequest("updateTask", "updateTask",
                            [id |-> id, updates |-> [groupId |-> g]])>>)
    /\ UNCHANGED <<sMem, sNextId>>

DeleteTask(id) ==
    /\ id \in SeqIds(sMem.tasks)
    /\ Start("deleteTask",
             <<StoreRequest("deleteTask", "deleteTask", [id |-> id])>>)
    /\ UNCHANGED <<sMem, sNextId>>

CreateGroup ==
    /\ sMem.currentProject # Null
    /\ sNextId <= MaxIds
    /\ Start("createGroup",
             <<StoreRequest("addGroup", "createGroup",
                   [rec |-> [id |-> sNextId,
                             projectId |-> sMem.currentProject.id,
                             title |-> "a"]])>>)
    /\ sNextId' = sNextId + 1
    /\ UNCHANGED sMem

UpdateGroup(id) ==
    /\ id \in SeqIds(sMem.groups)
    /\ Start("updateGroup",
             <<StoreRequest("updateGroup", "updateGroup",
                            [id |-> id, updates |-> [title |-> "b"]])>>)
    /\ UNCHANGED <<sMem, sNextId>>

DeleteGroup(id) ==
    /\ id \in SeqIds(sMem.groups)
    /\ Start("deleteGroup",
             <<StoreRequest("deleteGroup", "deleteGroup", [id |-> id])>>)
    /\ UNCHANGED <<sMem, sNextId>>

LoadProjects ==
    /\ Start("loadProjects",
             <<StoreRequest("getAllProjects", "loadProjects", NoFields)>>)
    /\ UNCHANGED <<sMem, sNextId>>

\* store.ts importProjectData(doc) up to the await of addProject
ImportProjectData(doc) ==
    /\ \A i \in DOMAIN sQueue : sQueue[i].action # "importProjectData"
    /\ LET steps == ImportSteps(doc)
       IN Start("importProjectData",
                <<Merge(Head(steps), [rest |-> Tail(steps), doc |-> doc])>>)
    /\ UNCHANGED <<sMem, sNextId>>

Settled(r, ok) ==
    [action |-> r.action, ok |-> ok,
     id |-> IF "id" \in DOMAIN r THEN r.id
            ELSE IF "doc" \in DOMAIN r THEN r.doc.project.id
            ELSE IF "rec" \in DOMAIN r THEN r.rec.id ELSE Undefined,
     threw |-> ~ ok /\ r.action \in ThrowingActions]

\* IndexedDB carries out the oldest request and the store action that
\* awaits it resumes.
StoreSucceed ==
    /\ sQueue # <<>>
    /\ LET r == Head(sQueue)
           db == Applied(sDb, r)
       IN /\ CanSucceed(sDb, r)
          /\ sDb' = db
          /\ IF r.action # "importProjectData"
             THEN /\ sMem' = MemAfter(sMem, r, db)
                  /\ sQueue' = Tail(sQueue)
                  /\ sLoading' = IF r.action \in LoadingActions THEN FALSE
                                 ELSE sLoading
                  /\ sError' = sError
                  /\ sDone' = Settled(r, TRUE)
             ELSE IF r.rest # <<>>
             THEN \* the next await of importProjectData; the last one is
                  \* that of loadProjects, which sets isLoading and error
                  /\ sQueue' = Append(Tail(sQueue),
                                      Merge(Head(r.rest),
                                            [rest |-> Tail(r.rest),
                                             doc |-> r.doc]))
                  /\ sError' = IF Len(r.rest) = 1 THEN NoError ELSE sError
                  /\ sLoading' = IF Len(r.rest) = 1 THEN TRUE ELSE sLoading
                  /\ UNCHANGED <<sMem, sDone>>
             ELSE \* loadProjects has set the projects; then
                  \* setCurrentProject(project) and the finally block
                  LET mem == [sMem EXCEPT !.projects = SortById(db.projects)]
                  IN /\ sMem' = IF SameProject(mem, r.doc.project) THEN mem
                                ELSE [mem EXCEPT !.currentProject =
                                                     r.doc.project]
                     /\ sQueue' = Tail(sQueue)
                                  \o IF SameProject(mem, r.doc.project)
                                     THEN <<>>
                                     ELSE ProjectLoads(r.doc.project.id)
                     /\ sError' = sError
                     /\ sLoading' = FALSE
                     /\ sDone' = Settled(r, TRUE)
    /\ UNCHANGED <<sNextId, sStarted>>
    /\ UNCHANGED <<uvars, gvars, rvars, xvars, ivars>>

\* IndexedDB rejects the oldest request and the catch block of the store
\* action that awaits it runs.
StoreFail ==
    /\ sQueue # <<>>
    /\ LET r == Head(sQueue)
       IN IF r.action = "importProjectData" /\ r.rest = <<>>
          THEN \* loadProjects catches the rejection itself; the import goes
               \* on with setCurrentProject(project)
               /\ sMem' = IF SameProject(sMem, r.doc.project) THEN sMem
                          ELSE [sMem EXCEPT !.currentProject = r.doc.project]
               /\ sQueue' = Tail(sQueue)
                            \o IF SameProject(sMem, r.doc.project) THEN <<>>
                               ELSE ProjectLoads(r.doc.project.id)
               /\ sError' = IF SameProject(sMem, r.doc.project)
                            THEN ErrorMessage("loadProjects") ELSE NoError
               /\ sLoading' = FALSE
               /\ sDone' = Settled(r, TRUE)
          ELSE /\ sQueue' = Tail(sQueue)
               /\ sError' = ErrorMessage(r.action)
               /\ sLoading' = IF r.action \in LoadingActions THEN FALSE
                              ELSE sLoading
               /\ sDone' = Settled(r, FALSE)
               /\ UNCHANGED sMem
    /\ UNCHANGED <<sDb, sNextId, sStarted>>
    /\ UNCHANGED <<uvars, gvars, rvars, xvars, ivars>>

\* =========================================================================
\* The export specification: export-utils.ts exportProjectAsJSON followed by
\* parseImportedJSON. A Date is its instant in ticks since the epoch; an ISO
\* string is the UTC calendar day and the time within it. xZone is the
\* offset of the local zone, ahead of UTC, in which days are read.
\* =========================================================================
MaxExportTasks == 2
MaxExportGroups == 1
MaxZoneOffset == 1

\* Faulty variant: the date is written without its time (YYYY-MM-DD).
toISOStringDateOnly(t) == [day |-> t \div TicksPerDay, time |-> 0]

\* Date.prototype.toISOString: YYYY-MM-DDTHH:mm:ss.sssZ, in UTC
toISOString(t) == [day |-> t \div TicksPerDay, time |-> t % TicksPerDay]

\* new Date(isoString)
DateParse(iso) == iso.day * TicksPerDay + iso.time

\* The day of an instant in the zone z.
LocalDay(t, z) == (t + z) \div TicksPerDay

\* JSON.stringify leaves out the properties the value of which is undefined.
JsonFields(rec) == [k \in {f \in DOMAIN rec : rec[f] # Undefined} |-> rec[k]]

\* exportProjectAsJSON: the tasks and groups of the document, after
\* JSON.stringify (the dates, never undefined, are converted last here)
exportProjectAsJSON(taskList, groupList) ==
    [tasks |-> [i \in DOMAIN taskList |->
                   Merge(JsonFields(taskList[i]),
                         [startDate |-> toISOString(taskList[i].startDate),
                          endDate |-> toISOString(taskList[i].endDate)])],
     groups |-> [i \in DOMAIN groupList |->
                    Merge(JsonFields(groupList[i]),
                          [createdAt |->
                               toISOString(groupList[i].createdAt)])]]

\* parseImportedJSON: the tasks and groups it returns
parseImportedJSON(json) ==
    [tasks |-> [i \in DOMAIN json.tasks |->
                   Merge(json.tasks[i],
                         [startDate |-> DateParse(json.tasks[i].startDate),
                          endDate |-> DateParse(json.tasks[i].endDate)])],
     groups |-> [i \in DOMAIN json.groups |->
                    Merge(json.groups[i],
                          [createdAt |-> DateParse(json.groups[i].createdAt)])]]

ExportTask(i, g, s, e) ==
    [id |-> i, projectId |-> 1, groupId |-> g, progress |-> 0,
     startDate |-> s, endDate |-> e]

ExportGroup(i, c) == [id |-> i, projectId |-> 1, createdAt |-> c]

RECURSIVE ExportTaskLists(_)
ExportTaskLists(n) ==
    IF n = 0 THEN {<<>>}
    ELSE {Append(l, ExportTask(n, g, s, e)) :
              l \in ExportTaskLists(n - 1), g \in {Undefined, 1},
              s \in UtilTicks, e \in UtilTicks}

RECURSIVE ExportGroupLists(_)
ExportGroupLists(n) ==
    IF n = 0 THEN {<<>>}
    ELSE {Append(l, ExportGroup(n, c)) :
              l \in ExportGroupLists(n - 1), c \in UtilTicks}

NoJson == [tasks |-> <<>>, groups |-> <<>>]

InitIdleExport ==
    /\ xTasks = <<>>
    /\ xGroups = <<>>
    /\ xZone = 0
    /\ xPc = "idle"
    /\ xJson = NoJson
    /\ xParsed = NoJson

InitExportVars ==
    /\ xTasks \in UNION {ExportTaskLists(n) : n \in 0..MaxExportTasks}
    /\ xGroups \in UNION {ExportGroupLists(n) : n \in 0..MaxExportGroups}
    /\ xZone \in 0..MaxZoneOffset
    /\ xPc = "input"
    /\ xJson = NoJson
    /\ xParsed = NoJson

\* page.tsx handleExportJSON: exportProjectAsJSON(currentProject, tasks, groups)
Export ==
    /\ xPc = "input"
    /\ xJson' = exportProjectAsJSON(xTasks, xGroups)
    /\ xPc' = "exported"
    /\ UNCHANGED <<xTasks, xGroups, xZone, xParsed>>
    /\ UNCHANGED <<uvars, gvars, rvars, svars, ivars>>

\* page.tsx handleImportJSON: parseImportedJSON(content)
Parse ==
    /\ xPc = "exported"
    /\ xParsed' = parseImportedJSON(xJson)
    /\ xPc' = "parsed"
    /\ UNCHANGED <<xTasks, xGroups, xZone, xJson>>
    /\ UNCHANGED <<uvars, gvars, rvars, svars, ivars>>

\* =========================================================================
\* The initialization specification: store.ts initializeDB, called by the
\* effects of the Home page and of the project page. iCalls holds, for each
\* call, the await it is at; iOpens and iChecks count the calls of
\* dbManager.initDB and of the schema check.
\* =========================================================================
\* Calls of initializeDB.
MaxInitCalls == 3

\* The awaits of initializeDB, in order.
InitAwaits == <<"initDB", "checkAndRepairDB", "loadProjects">>

FirstAwait == InitAwaits[1]

\* if (get().isDBInitialized) return
AlreadyInitialized(initialized) == initialized

InitIdleInitialize ==
    /\ iInitialized = FALSE
    /\ iCalls = <<>>
    /\ iOpens = 0
    /\ iChecks = 0
    /\ iLoading = FALSE
    /\ iError = NoError

InitInitializeVars == InitIdleInitialize

\* initializeDB up to its first await, dbManager.initDB()
InitializeDB ==
    /\ Len(iCalls) < MaxInitCalls
    /\ IF AlreadyInitialized(iInitialized)
       THEN /\ iCalls' = Append(iCalls, "skipped")
            /\ UNCHANGED <<iInitialized, iOpens, iChecks, iLoading, iError>>
       ELSE /\ iCalls' = Append(iCalls, FirstAwait)
            /\ iLoading' = TRUE
            /\ iError' = NoError
            /\ iOpens' = iOpens + 1
            /\ UNCHANGED <<iInitialized, iChecks>>
    /\ UNCHANGED <<uvars, gvars, rvars, svars, xvars>>

\* The await of call i resolves and initializeDB runs to its next await or,
\* after loadProjects, to its end.
InitResolve(i) ==
    /\ iCalls[i] \in {InitAwaits[k] : k \in DOMAIN InitAwaits}
    /\ IF iCalls[i] = "initDB"
       THEN /\ iCalls' = [iCalls EXCEPT ![i] = "checkAndRepairDB"]
            /\ iChecks' = iChecks + 1
            /\ UNCHANGED <<iInitialized, iOpens, iLoading, iError>>
       ELSE IF iCalls[i] = "checkAndRepairDB"
       THEN \* loadProjects: set({ isLoading: true, error: null })
            /\ iCalls' = [iCalls EXCEPT ![i] = "loadProjects"]
            /\ iLoading' = TRUE
            /\ iError' = NoError
            /\ UNCHANGED <<iInitialized, iOpens, iChecks>>
       ELSE /\ iCalls' = [iCalls EXCEPT ![i] = "done"]
            /\ iInitialized' = TRUE
            /\ iLoading' = FALSE
            /\ UNCHANGED <<iOpens, iChecks, iError>>
    /\ UNCHANGED <<uvars, gvars, rvars, svars, xvars>>

\* The await of call i rejects: the catch block of initializeDB or, for
\* loadProjects, that of loadProjects itself.
InitReject(i) ==
    /\ iCalls[i] \in {InitAwaits[k] : k \in DOMAIN InitAwaits}
    /\ iCalls' = [iCalls EXCEPT ![i] = IF iCalls[i] = "loadProjects"
                                       THEN "done" ELSE "failed"]
    /\ iError' = "Failed"
    /\ iInitialized' = TRUE
    /\ iLoading' = FALSE
    /\ UNCHANGED <<iOpens, iChecks>>
    /\ UNCHANGED <<uvars, gvars, rvars, svars, xvars>>

\* ------------------------------------------------------- specifications
InitIdleUtilVars ==
    /\ uTasks = <<>>
    /\ uView = "daily"
    /\ uPc = "idle"
    /\ uFromTasks = FALSE
    /\ uConfig = NoConfig
    /\ uTimeline = <<>>
    /\ uPositions = <<>>
    /\ uInverse = <<>>
    /\ uEdge = <<>>
    /\ uProbe = NoProbe
    /\ clock = FirstDay * TicksPerDay

InitIdleOther ==
    InitIdleRender /\ InitIdleStore /\ InitIdleExport /\ InitIdleInitialize

Init == InitIdleUtilVars /\ InitGestureVars /\ InitIdleOther
Next == NextGestureVars
Spec == Init /\ [][Next]_vars

InitUtils == InitUtilVars /\ InitGestureVars /\ InitIdleOther
NextUtils ==
    \/ UseDimensions /\ UNCHANGED <<gvars, ovars>>
    \/ \E s \in UtilTicks, e \in UtilTicks : UseConfig(s, e) /\ UNCHANGED <<gvars, ovars>>
    \/ Enumerate /\ UNCHANGED <<gvars, ovars>>
    \/ PositionBars /\ UNCHANGED <<gvars, ovars>>
    \/ \E x \in ProbeXs : Probe(x) /\ UNCHANGED <<gvars, ovars>>
SpecUtils == InitUtils /\ [][NextUtils]_vars

InitRender ==
    /\ InitIdleUtilVars /\ InitGestureVars /\ InitRenderVars
    /\ InitIdleStore /\ InitIdleExport /\ InitIdleInitialize
NextRender ==
    \/ Organize
    \/ Dimension
    \/ Tick
SpecRender == InitRender /\ [][NextRender]_vars

InitStore ==
    /\ InitIdleUtilVars /\ InitGestureVars /\ InitIdleRender
    /\ InitIdleStore /\ InitIdleExport /\ InitIdleInitialize
NextStore ==
    \/ CreateProject
    \/ \E id \in SeqIds(sMem.projects) : UpdateProject(id)
    \/ \E id \in SeqIds(sMem.projects) : DeleteProject(id)
    \/ \E i \in DOMAIN sMem.projects : SetCurrentProject(sMem.projects[i])
    \/ SetCurrentProject(Null)
    \/ \E g \in SeqIds(sMem.groups) \cup {Undefined} : CreateTask(g)
    \/ \E id \in SeqIds(sMem.tasks),
          g \in SeqIds(sMem.groups) \cup {Undefined} : UpdateTask(id, g)
    \/ \E id \in SeqIds(sMem.tasks) : DeleteTask(id)
    \/ CreateGroup
    \/ \E id \in SeqIds(sMem.groups) : UpdateGroup(id)
    \/ \E id \in SeqIds(sMem.groups) : DeleteGroup(id)
    \/ LoadProjects
    \/ \E doc \in ImportDocs : ImportProjectData(doc)
    \/ StoreSucceed
    \/ StoreFail
SpecStore == InitStore /\ [][NextStore]_vars

InitExport ==
    /\ InitIdleUtilVars /\ InitGestureVars /\ InitIdleRender
    /\ InitIdleStore /\ InitExportVars /\ InitIdleInitialize
NextExport ==
    \/ Export
    \/ Parse
SpecExport == InitExport /\ [][NextExport]_vars

InitInitialize ==
    /\ InitIdleUtilVars /\ InitGestureVars /\ InitIdleRender
    /\ InitIdleStore /\ InitIdleExport /\ InitInitializeVars
NextInitialize ==
    \/ InitializeDB
    \/ \E i \in DOMAIN iCalls : InitResolve(i)
    \/ \E i \in DOMAIN iCalls : InitReject(i)
SpecInitialize == InitInitialize /\ [][NextInitialize]_vars

\* =========================================================================
\* Properties
\* =========================================================================
ValidTask(t) == t.endDate >= t.startDate

\* ---------------------------------------------------------------- C1
\* C1: after any sequence of interactive edits (add-task dialog, edit-task
\* sheet, whole-bar drag, start-edge resize, end-edge resize) every task held
\* in the store has endDate >= startDate.
C1_StoredRangesNeverInverted ==
    \A i \in DOMAIN tasks : ValidTask(tasks[i])

\* ---------------------------------------------------------------- C2
\* C2: the store's updateTask is never invoked on a pointer move: no request
\* to the task store stems from a mousemove of a drag or resize gesture.
C2_NoUpdateOnPointerMove ==
    \A i \in DOMAIN dbQueue : dbQueue[i].origin \notin GestureTypes

\* ---------------------------------------------------------------- C3
\* A drag has ended and every update it issued has completed.
DragSettled ==
    /\ lastMove # NoMove
    /\ listeners = <<>>
    /\ \A i \in DOMAIN dbQueue :
           dbQueue[i].origin = "drag" => dbQueue[i].id # lastMove.id

C4_ResizeRejectsAgainstCurrentDates ==
    \A i \in DOMAIN listeners : \A x \in PointerXs :
        LET l == listeners[i]
        IN /\ (/\ l.type = "resize-left"
               /\ l.isResizing = "left"
               /\ ~ isBefore(ResizeLeftCandidate(l, x),
                             TaskById(tasks, l.task.id).endDate))
                  => handleMouseMove(l, x) = <<>>
           /\ (/\ l.type = "resize-right"
               /\ l.isResizing = "right"
               /\ ~ isAfter(ResizeRightCandidate(l, x),
                            TaskById(tasks, l.task.id).startDate))
                  => handleMouseMove(l, x) = <<>>

\* ---------------------------------------------------------------- C5
\* C5: for every pointer position during a whole-bar drag, the one update
\* the move issues sets startDate and endDate together, and the new endDate
\* minus the new startDate in whole days equals the endDate minus the
\* startDate, in whole days, of the task the gesture started from.
C5_DragPreservesDuration ==
    \A i \in DOMAIN listeners : \A x \in PointerXs :
        listeners[i].type = "drag" =>
            LET l == listeners[i]
                reqs == MoveRequests(<<l>>, x)
            IN /\ Len(reqs) = 1
               /\ reqs[1].id = l.task.id
               /\ DOMAIN reqs[1].updates = {"startDate", "endDate"}
               /\ diff(reqs[1].updates.endDate, reqs[1].updates.startDate, "day")
                      = diff(l.task.endDate, l.task.startDate, "day")

\* A drag of a task longer than a day has issued an update that moves it.
C5_Witness ==
    \E i \in DOMAIN listeners : \E j \in DOMAIN dbQueue :
        /\ listeners[i].type = "drag"
        /\ listeners[i].task.endDate > listeners[i].task.startDate
        /\ dbQueue[j].origin = "drag"
        /\ dbQueue[j].id = listeners[i].task.id
        /\ dbQueue[j].updates.startDate # listeners[i].task.startDate
        /\ dbQueue[j].updates.endDate - dbQueue[j].updates.startDate
               = listeners[i].task.endDate - listeners[i].task.startDate

\* ---------------------------------------------------------------- C6
\* The bars have been positioned with the config computed from the task
\* list, and every task of the list has startDate <= endDate.
PositionedFromTasks ==
    /\ uPc = "done"
    /\ uFromTasks
    /\ \A i \in DOMAIN uTasks : ValidTask(uTasks[i])

\* C6: for every task of the list the config was computed from, the offset
\* of calculateTaskPosition fed into getDateFromPosition yields a date in
\* the same day (daily view) or week (weekly view) as the task's startDate.
C6_RoundTripSamePeriod ==
    PositionedFromTasks =>
        \A i \in DOMAIN uTasks :
            isSame(uInverse[i], uTasks[i].startDate, PeriodOfView(uView))

\* ---------------------------------------------------------------- C7
\* C7: for every non-empty task list whose tasks have startDate <= endDate,
\* in both views, the range of calculateGanttDimensions has
\* startDate <= endDate, starts no later than every task's startDate and
\* ends no earlier than every task's endDate.
C7_RangeContainsTasks ==
    (/\ uPc # "input"
     /\ uFromTasks
     /\ \A i \in DOMAIN uTasks : ValidTask(uTasks[i]))
        => /\ uConfig.startDate <= uConfig.endDate
           /\ \A i \in DOMAIN uTasks :
                  /\ uConfig.startDate <= uTasks[i].startDate
                  /\ uConfig.endDate >= uTasks[i].endDate

\* The range of a weekly chart of two tasks with different starts and ends.
C7_Witness ==
    /\ uPc = "config"
    /\ uFromTasks
    /\ uView = "weekly"
    /\ Len(uTasks) = 2
    /\ \A i \in DOMAIN uTasks : ValidTask(uTasks[i])
    /\ uTasks[1].startDate > uTasks[2].startDate
    /\ uTasks[1].endDate < uTasks[2].endDate
    /\ uConfig.startDate < uTasks[2].startDate
    /\ uConfig.endDate > uTasks[2].endDate

\* ---------------------------------------------------------------- C8
\* C8: for every task with startDate <= endDate and every config, in both
\* views, calculateTaskPosition returns width >= cellWidth - 2.
C8_WidthAtLeastOneCell ==
    uPc = "done" =>
        \A i \in DOMAIN uTasks :
            ValidTask(uTasks[i])
                => uPositions[i].width >= uConfig.cellWidth - 2

\* A weekly bar of a task inside one week, under a config that is not
\* computed from the task, is exactly one cell wide.
C8_Witness ==
    /\ uPc = "done"
    /\ ~ uFromTasks
    /\ uView = "weekly"
    /\ ValidTask(uTasks[1])
    /\ uTasks[1].endDate > uTasks[1].startDate
    /\ uConfig.startDate > uTasks[1].startDate
    /\ uPositions[1].width = CellWidthWeekly - 2

\* ---------------------------------------------------------------- C9
\* C9: given a task whose endDate is before its startDate,
\* calculateTaskPosition fails fast: it returns no width, clamped or
\* negative, but an error indicator.
C9_InvertedTaskFailsFast ==
    uPc = "done" =>
        \A i \in DOMAIN uTasks :
            ~ ValidTask(uTasks[i]) => "width" \notin DOMAIN uPositions[i]

\* ---------------------------------------------------------------- C10
\* The enumerated sequence has an entry, starts no later than startDate and
\* ends in the period of endDate.
TimelineCovers ==
    /\ Len(uTimeline) >= 1
    /\ uTimeline[1] <= uConfig.startDate
    /\ isSame(uTimeline[Len(uTimeline)], uConfig.endDate,
              PeriodOfView(uConfig.view))

Enumerated == uPc \in {"timeline", "done"}

StartPeriodNotAfterEnd ==
    startOf(uConfig.startDate, PeriodOfView(uConfig.view)) <= uConfig.endDate

RowKinds(rows) == [k \in DOMAIN rows |-> <<rows[k].type, rows[k].id>>]

TaskKinds(taskList) == [k \in DOMAIN taskList |-> <<"task", taskList[k].id>>]

\* The tasks that reference group g, in list order.
MembersOf(taskList, g) == SelectSeq(taskList, LAMBDA t : t.groupId = g)

RECURSIVE GroupedKinds(_, _)
GroupedKinds(groupList, taskList) ==
    IF groupList = <<>> THEN <<>>
    ELSE <<<<"group", Head(groupList)>>>>
             \o TaskKinds(MembersOf(taskList, Head(groupList)))
             \o GroupedKinds(Tail(groupList), taskList)

\* C11: the organized row sequence is, for each group in group order, one
\* header row followed by the group's member tasks in task-list order, then
\* the tasks with no group reference in task-list order with no header; a
\* group without members still has its header row.
C11_RowOrder ==
    rPc = "rows" =>
        RowKinds(rRows) = GroupedKinds(rGroups, rTasks)
                              \o TaskKinds(MembersOf(rTasks, NoGroupId))

\* ---------------------------------------------------------------- C12
\* C12: a task whose groupId matches the id of no group of the group list is
\* emitted as a task row after all group rows; it is never dropped.
C12_OrphanTaskIsUngrouped ==
    rPc = "rows" =>
        \A i \in DOMAIN rTasks :
            (/\ rTasks[i].groupId # NoGroupId
             /\ \A j \in DOMAIN rGroups : rGroups[j] # rTasks[i].groupId)
                => \E k \in DOMAIN rRows :
                       /\ rRows[k].type = "task"
                       /\ rRows[k].id = rTasks[i].id
                       /\ \A h \in DOMAIN rRows :
                              rRows[h].type = "group" => h < k

\* ---------------------------------------------------------------- C18
\* C18: two calls of calculateGanttDimensions with the same task list and
\* the same view return identical results, whenever they are made.
C18_DimensionsDeterministic ==
    Len(rCalls) = 2 => rCalls[1] = rCalls[2]

\* ---------------------------------------------------------------- C19
\* C19: the row at 0-based position k of the organized rows carries index k.
C19_RowIndexIsPosition ==
    rPc = "rows" => \A k \in DOMAIN rRows : rRows[k].index = k - 1

\* Rows of two groups, the first without members, and of tasks with and
\* without a group.
C19_Witness ==
    /\ rPc = "rows"
    /\ Len(rRows) = 5
    /\ rRows[1].type = "group"
    /\ rRows[2].type = "group"
    /\ rRows[3].type = "task"
    /\ rRows[5].type = "task"
    /\ rRows[5].data.groupId = NoGroupId
    /\ rRows[5].index = 4

\* The store action that resumes when the oldest request succeeds.
Succeeds(action) ==
    /\ sQueue # <<>>
    /\ Head(sQueue).action = action
    /\ StoreSucceed

\* The store action the catch block of which runs when the oldest request
\* is rejected.
Fails(action) ==
    /\ sQueue # <<>>
    /\ Head(sQueue).action = action
    /\ StoreFail

TaskWithId(recs, id) == CHOOSE t \in recs : t.id = id

\* C13: when deleteGroup(id) succeeds the group is in neither the database
\* nor the in-memory groups, every task that referenced it has no group
\* reference in both places, and no task is deleted.
C13_DeleteGroupDetachesTasks ==
    [][Succeeds("deleteGroup") =>
        LET id == Head(sQueue).id
        IN /\ id \notin Ids(sDb'.groups)
           /\ id \notin SeqIds(sMem'.groups)
           /\ Ids(sDb'.tasks) = Ids(sDb.tasks)
           /\ \A t \in sDb.tasks :
                  GroupIdOf(t) = id =>
                      GroupIdOf(TaskWithId(sDb'.tasks, t.id)) = Undefined
           /\ \A t \in sDb'.tasks : GroupIdOf(t) # id
           /\ Len(sMem'.tasks) = Len(sMem.tasks)
           /\ \A i \in DOMAIN sMem.tasks :
                  /\ sMem'.tasks[i].id = sMem.tasks[i].id
                  /\ GroupIdOf(sMem'.tasks[i]) # id
                  /\ GroupIdOf(sMem.tasks[i]) = id =>
                         GroupIdOf(sMem'.tasks[i]) = Undefined]_vars

\* deleteGroup has succeeded on a group with a member task, which is still
\* stored and in memory, without a group.
C13_Witness ==
    /\ sDone.action = "deleteGroup"
    /\ sDone.ok
    /\ \E t \in sDb.tasks : "groupId" \notin DOMAIN t
    /\ \E i \in DOMAIN sMem.tasks : sMem.tasks[i].groupId = Undefined
    /\ sDone.id \notin Ids(sDb.groups) \cup SeqIds(sMem.groups)

\* C14: when deleteProject(id) succeeds the database holds no project, task
\* or group of that project, the records of the other projects are as they
\* were, and if the project was the current one currentProject is null and
\* the in-memory tasks and groups are empty.
C14_DeleteProjectCascades ==
    [][Succeeds("deleteProject") =>
        LET id == Head(sQueue).id
        IN /\ sDb'.projects = {r \in sDb.projects : r.id # id}
           /\ sDb'.tasks = {r \in sDb.tasks : r.projectId # id}
           /\ sDb'.groups = {r \in sDb.groups : r.projectId # id}
           /\ sMem.currentProject.id = id =>
                  /\ sMem'.currentProject = Null
                  /\ sMem'.tasks = <<>>
                  /\ sMem'.groups = <<>>]_vars

\* The imported project, current and with a task and a group, has been
\* deleted while another project is stored.
C14_Witness ==
    /\ sDone.action = "deleteProject"
    /\ sDone.ok
    /\ sDone.id = MaxIds + 1
    /\ sStarted = 3
    /\ sDb.projects # {}
    /\ sDb.tasks = {}
    /\ sDb.groups = {}
    /\ sMem.currentProject = Null
    /\ sMem.tasks = <<>>

\* C15: a task the end date of which is before its start date is never
\* accepted by an import: it is neither stored nor in the in-memory list.
C15_ImportedTaskNeverInverted ==
    /\ \A t \in sDb.tasks : t.startDate <= t.endDate
    /\ \A i \in DOMAIN sMem.tasks :
           sMem.tasks[i].startDate <= sMem.tasks[i].endDate

\* C16: an import of a document the project id of which is already stored
\* succeeds: IndexedDB carries out the addProject request of the import.
C16_ImportOverExistingSucceeds ==
    \A i \in DOMAIN sQueue :
        (/\ sQueue[i].action = "importProjectData"
         /\ sQueue[i].op = "addProject"
         /\ sQueue[i].rec.id \in Ids(sDb.projects))
            => CanSucceed(sDb, sQueue[i])

\* The store actions that write one change through IndexedDBManager.
WritingActions == ThrowingActions \ {"importProjectData"}

\* C20: when IndexedDB rejects the request of createProject, updateProject,
\* deleteProject, createTask, updateTask, deleteTask, createGroup,
\* updateGroup or deleteGroup, the in-memory projects, tasks and groups are
\* unchanged, error is set and the action rejects to its caller.
C20_RejectionLeavesMemory ==
    [][\A action \in WritingActions :
          Fails(action) =>
              /\ sMem'.projects = sMem.projects
              /\ sMem'.tasks = sMem.tasks
              /\ sMem'.groups = sMem.groups
              /\ sError' # NoError
              /\ sDone'.threw]_vars

\* updateTask has been rejected with tasks in memory.
C20_Witness ==
    /\ sDone.action = "updateTask"
    /\ ~ sDone.ok
    /\ sDone.threw
    /\ sError # NoError
    /\ sMem.tasks # <<>>

\* record.field, undefined when the property is absent
FieldOf(rec, k) == IF k \in DOMAIN rec THEN rec[k] ELSE Undefined

SameOtherFields(a, b, dateFields) ==
    \A k \in (DOMAIN a \cup DOMAIN b) \ dateFields :
        FieldOf(a, k) = FieldOf(b, k)

SameDay(a, b) == LocalDay(a, xZone) = LocalDay(b, xZone)

\* C17: parseImportedJSON(exportProjectAsJSON(project, tasks, groups))
\* returns the tasks and the groups in the same order, every startDate,
\* endDate and createdAt on the same day as the original, every other field
\* equal.
C17_ExportImportRoundTrip ==
    xPc = "parsed" =>
        /\ Len(xParsed.tasks) = Len(xTasks)
        /\ Len(xParsed.groups) = Len(xGroups)
        /\ \A i \in DOMAIN xTasks :
               /\ SameOtherFields(xTasks[i], xParsed.tasks[i],
                                  {"startDate", "endDate"})
               /\ SameDay(xTasks[i].startDate, xParsed.tasks[i].startDate)
               /\ SameDay(xTasks[i].endDate, xParsed.tasks[i].endDate)
        /\ \A i \in DOMAIN xGroups :
               /\ SameOtherFields(xGroups[i], xParsed.groups[i],
                                  {"createdAt"})
               /\ SameDay(xGroups[i].createdAt, xParsed.groups[i].createdAt)

\* Two tasks, one without a group, and a group have gone through the round
\* trip, with a date the local day of which is not its UTC day.
C17_Witness ==
    /\ xPc = "parsed"
    /\ Len(xTasks) = MaxExportTasks
    /\ xTasks[1].id # xTasks[2].id
    /\ xGroups # <<>>
    /\ \E i \in DOMAIN xTasks : xTasks[i].groupId = Undefined
    /\ \E i \in DOMAIN xTasks :
           LocalDay(xTasks[i].startDate, xZone)
               # LocalDay(xTasks[i].startDate, 0)

\* ---------------------------------------------------------------- C23
\* The number of whole units of u ticks in a span of d >= 0 ticks.
WholeUnits(d, u) == CHOOSE n \in 0..d : n * u <= d /\ d < (n + 1) * u

\* diffInDays, diffInPeriods: the signed number of whole units from b to a
RefDiff(a, b, u) ==
    IF a >= b THEN WholeUnits(a - b, u) ELSE -WholeUnits(b - a, u)

\* weekOf: the instant a week begins at or before t, less than a week before
RefWeekOf(t) ==
    CHOOSE w \in 0..t :
        /\ \E k \in 0..t : w = k * DaysPerWeek * TicksPerDay
        /\ w <= t
        /\ t < w + DaysPerWeek * TicksPerDay

\* The reference formula of the position of a bar.
ReferencePosition(task, config) ==
    IF config.view = "daily"
    THEN [left |-> RefDiff(task.startDate, config.startDate, TicksPerDay)
                       * config.cellWidth,
          width |-> (RefDiff(task.endDate, task.startDate, TicksPerDay) + 1)
                        * config.cellWidth - 2]
    ELSE LET weeks == RefDiff(RefWeekOf(task.endDate),
                              RefWeekOf(task.startDate),
                              DaysPerWeek * TicksPerDay) + 1
         IN [left |-> RefDiff(RefWeekOf(task.startDate),
                              RefWeekOf(config.startDate),
                              DaysPerWeek * TicksPerDay) * config.cellWidth,
             width |-> (IF weeks >= 1 THEN weeks ELSE 1) * config.cellWidth - 2]

\* The scenario of the specification, on days counted from day 0: daily
\* view, config start day 0, task from day 2 to day 4, cellWidth 60.
ScenarioPosition ==
    calculateTaskPosition(
        [startDate |-> 2 * TicksPerDay, endDate |-> 4 * TicksPerDay],
        [view |-> "daily", startDate |-> 0, cellWidth |-> CellWidthDaily])

\* C23: for every task and config calculateTaskPosition equals the
\* reference formula, offset = cells from the config start * cellWidth and
\* width = cells of the task * cellWidth - 2, in days (daily view) or in
\* weeks between week starts with at least one cell (weekly view); the
\* scenario gives offset 120 and width 178.
C23_PositionIsReferenceFormula ==
    /\ ScenarioPosition = [left |-> 120, width |-> 178]
    /\ uPc \in {"done", "probed"} =>
           \A i \in DOMAIN uTasks :
               uPositions[i] = ReferencePosition(uTasks[i], uConfig)

\* A weekly bar that starts in the week after that of a config start which
\* is not a week start, and a later start of the task inside its week.
C23_Witness ==
    /\ uPc = "done"
    /\ ~ uFromTasks
    /\ uView = "weekly"
    /\ uConfig.startDate # RefWeekOf(uConfig.startDate)
    /\ uTasks[1].startDate # RefWeekOf(uTasks[1].startDate)
    /\ uTasks[1].startDate - uConfig.startDate < DaysPerWeek * TicksPerDay
    /\ uPositions[1].left = CellWidthWeekly

\* ---------------------------------------------------------------- C24
RawStart ==
    CHOOSE m \in {uTasks[i].startDate : i \in DOMAIN uTasks} :
        \A i \in DOMAIN uTasks : m <= uTasks[i].startDate

RawEnd ==
    CHOOSE m \in {uTasks[i].endDate : i \in DOMAIN uTasks} :
        \A i \in DOMAIN uTasks : m >= uTasks[i].endDate

\* C24: for every non-empty task list, in daily view the range is from
\* rawStart - 7 days to rawEnd + 7 days exactly; in weekly view from the
\* week start (Saturday) of rawStart - 7 days to the week end of
\* rawEnd + 7 days; cellWidth is 60 (daily) or 120 (weekly), rowHeight 50.
C24_RangeIsPaddedByAWeek ==
    (uPc # "input" /\ uFromTasks) =>
        /\ uConfig.rowHeight = 50
        /\ uView = "daily" =>
               /\ uConfig.startDate = RawStart - 7 * TicksPerDay
               /\ uConfig.endDate = RawEnd + 7 * TicksPerDay
               /\ uConfig.cellWidth = 60
        /\ uView = "weekly" =>
               /\ uConfig.startDate = RefWeekOf(RawStart - 7 * TicksPerDay)
               /\ uConfig.endDate
                      = RefWeekOf(RawEnd + 7 * TicksPerDay)
                            + 7 * TicksPerDay - 1
               /\ uConfig.cellWidth = 120

\* The weekly range of two tasks, neither the first to start and the last
\* to end, with the raw start and the raw end inside their weeks.
C24_Witness ==
    /\ uPc = "config"
    /\ uFromTasks
    /\ uView = "weekly"
    /\ Len(uTasks) = 2
    /\ uTasks[2].startDate < uTasks[1].startDate
    /\ uTasks[2].endDate < uTasks[1].endDate
    /\ RawStart # RefWeekOf(RawStart)
    /\ uConfig.startDate < RawStart - 7 * TicksPerDay

\* ---------------------------------------------------------------- C25
\* round(x / w): the integer nearest to the quotient, halves upward
RefRound(x, w) ==
    CHOOSE k \in -(2 * CellWidthWeekly)..(Max2(x, 0) + 1) :
        (2 * k - 1) * w <= 2 * x /\ 2 * x < (2 * k + 1) * w

RefClamp(k, lo, hi) == IF k < lo THEN lo ELSE IF k > hi THEN hi ELSE k

\* The probed date is the entry of the enumerated sequence at the clamped,
\* rounded cell index.
ProbeIsClampedCell ==
    \E i \in DOMAIN uTimeline :
        /\ i = RefClamp(RefRound(uProbe.x, uConfig.cellWidth), 0,
                        Len(uTimeline) - 1) + 1
        /\ uProbe.date = uTimeline[i]

C30_ZeroDeltaKeepsEndPeriod ==
    PositionedFromTasks =>
        \A i \in DOMAIN uTasks :
            isSame(uEdge[i], uTasks[i].endDate, PeriodOfView(uView))

\* ---------------------------------------------------------------- C21
\* What handleMouseMove of a mouse-down of this type on the bar of task id
\* closes over: the task, config and dragStart of the render before the
\* event.
Closure(id, type) ==
    [type |-> type,
     task |-> TaskById(tasks, id),
     config |-> GanttConfig(tasks, view, clock),
     dragStartX |-> bars[id].dragStartX,
     isResizing |-> bars[id].isResizing]

\* The updates a resize gesture is to make on a pointer move at x: the
\* candidate date, when it is on the right side of the other end.
ResizeExpected(c, x) ==
    IF c.type = "resize-right"
    THEN IF ResizeRightCandidate(c, x) > c.task.startDate
         THEN <<[endDate |-> ResizeRightCandidate(c, x)]>> ELSE <<>>
    ELSE IF ResizeLeftCandidate(c, x) < c.task.endDate
         THEN <<[startDate |-> ResizeLeftCandidate(c, x)]>> ELSE <<>>

\* C21: in a resize gesture begun by a mouse-down on the end-edge
\* (start-edge) handle, a pointer move whose candidate date is strictly
\* after the task's startDate (strictly before its endDate) results in an
\* update of the task's endDate (startDate) to that candidate.
C21_ResizeMoveUpdatesTask ==
    [][\A id \in TaskIds(tasks), type \in {"resize-left", "resize-right"},
          x0 \in PointerXs :
          MouseDown(id, type, x0) =>
              \A x \in PointerXs :
                  handleMouseMove(listeners'[Len(listeners')], x)
                      = ResizeExpected(Closure(id, type), x)]_vars

\* ---------------------------------------------------------------- C26
\* C26: in every gesture on a task bar the pixel delta applied on a pointer
\* move is the pointer's x minus the x of the mouse-down of that gesture;
\* a move to the mouse-down x yields a start date in the period of the
\* task's current startDate.
C26_DeltaFromOwnMouseDown ==
    [][\A id \in TaskIds(tasks), x0 \in PointerXs :
          MouseDown(id, "drag", x0) =>
              LET l == listeners'[Len(listeners')]
              IN /\ \A x \in PointerXs :
                        NewPosition(l, x)
                            = calculateTaskPosition(l.task, l.config).left
                                  - (x - x0)
                 /\ isSame(DragUpdates(l, x0)[1].startDate,
                           TaskById(tasks, id).startDate,
                           PeriodOfView(view))]_vars

\* ---------------------------------------------------------------- C22
\* C22: over any sequence of initializeDB calls, including calls issued
\* while an earlier call is still awaiting the database, dbManager.initDB
\* and the schema check are performed at most once.
C22_InitializesAtMostOnce == iOpens <= 1 /\ iChecks <= 1

\* ---------------------------------------------------------------- C28
\* C28: isLoading is true in every state in which a store action that sets
\* it has started and not yet finished, also when such actions overlap or
\* call one another.
C28_LoadingWhileInFlight ==
    (\E i \in DOMAIN sQueue : sQueue[i].action \in LoadingActions)
        => sLoading

\* ---------------------------------------------------------------- C29
\* C29: when IndexedDB rejects the addProject, an addGroup or an addTask of
\* importProjectData, none of the imported project, groups and tasks is in
\* the database after the action has failed.
C29_ImportIsAllOrNothing ==
    [][(/\ Fails("importProjectData")
        /\ Head(sQueue).op \in {"addProject", "addGroup", "addTask"}) =>
          LET doc == Head(sQueue).doc
          IN /\ doc.project \notin sDb'.projects
             /\ \A i \in DOMAIN doc.groups : doc.groups[i] \notin sDb'.groups
             /\ \A i \in DOMAIN doc.tasks : doc.tasks[i] \notin sDb'.tasks]_vars


\* A task as both the store's list and the database give it to a reader:
\* a task without a groupId property reads as groupId undefined.
TaskAsRead(t) ==
    [k \in DOMAIN t \cup {"groupId"} |->
        IF k = "groupId" THEN GroupIdOf(t) ELSE t[k]]

\* The tasks the database holds for the project with the given id.
PersistedTasks(db, id) == {TaskAsRead(t) : t \in {r \in db.tasks : r.projectId = id}}

\* The tasks of the store's in-memory list.
MemoryTasks(mem) == {TaskAsRead(mem.tasks[i]) : i \in DOMAIN mem.tasks}

\* C27: whenever no store action is in flight, the in-memory tasks list
\* is exactly the set of tasks persisted for currentProject, each of them
\* once, and is empty when currentProject is null.
C27_MemoryTasksArePersisted ==
    sQueue = <<>> =>
        IF sMem.currentProject = Null
        THEN sMem.tasks = <<>>
        ELSE /\ MemoryTasks(sMem) = PersistedTasks(sDb, sMem.currentProject.id)
             /\ Len(sMem.tasks) = Cardinality(MemoryTasks(sMem))

====
